---- MODULE Spec2Model ----
(***************************************************************************)
(* Model of the plugin services of powerplatform-mcp:                      *)
(*   PluginService.getPluginAssemblyComplete, getEntityPluginPipeline      *)
(*   DependencyService.checkDependencies / checkDeleteEligibility          *)
(*   PowerPlatformClient (the methods it has) and the tool handlers that   *)
(*   wrap the service calls in try/catch.                                  *)
(* One operation runs at a time; every `await this.client.get(...)` of the *)
(* source is one action: the request is logged in `calls`, the remote      *)
(* answers with rows drawn from small sets or the read fails, and the code *)
(* up to the next await (or up to the return / the handler's catch) runs.  *)
(***************************************************************************)
EXTENDS Integers, Sequences, FiniteSets, TLC

\* ---------------------------------------------------------------- bounds
MaxSteps == 2
MaxImages == 1
MaxTypes == 1
MaxDeps == 1
MaxLogs == 1
MaxTextLen == 3
MaxClock == 2
MaxRequests == 2
MaxAssemblies == 2
MaxAttributes == 2
MaxNameLen == 3

\* ------------------------------------------------------------ JS values
\* JS `undefined` and JSON `null`, kept as strings so that they compare with
\* the string fields they stand in for.
Undefined == "<undefined>"
Null == "<null>"

\* JS truthiness of a string-or-absent value: `!v` is true for undefined,
\* null and the empty string.
FalsyNullOnly(v) == v \in {Undefined, Null}
Falsy(v) == v \in {Undefined, Null, ""}
\* `v != null` is false for null and undefined only
Nullish(v) == v \in {Undefined, Null}

\* Sequences over S of length 0..n
SeqsUpTo(S, n) == UNION {[1..k -> S] : k \in 0..n}

\* ------------------------------------------------------- remote row sets
\* The message names a step row can carry in sdkmessageid?.name; Undefined
\* when the expand did not resolve.
MessageNames == {"Create", "Update", "Delete"}
MsgValues == MessageNames \cup {Undefined}
\* filteringattributes: null (none registered), "" or a comma-joined list
FattrValues == {Null, "", "name"}
\* step names are free text and need not be unique
StepNames == {"a", "b"}
\* stage codes: the three the code names, and one other code a row can carry
StagePreValidation == 10
StagePreOperation == 20
StagePostOperation == 40
StageOther == StagePostOperation + 10
Stages == {StagePreValidation, StagePreOperation, StagePostOperation, StageOther}
Ranks == {1, 2}
TypeIds == {"t1", "t2"}
AssemblyNames == {"Contoso.Plugins"}
\* what an `${error}` of a failed read can be: a failed token acquisition
\* (getAccessToken throws inside get's try) or a failed HTTP request
RemoteCauses == {"Error: Authentication failed", "AxiosError: Request failed"}

\* Step ids are opaque and only compared for equality, so the i-th row of a
\* response carries id i. An image may name a step id that is not in the
\* response (0).
AsmStepBodies == [name : StepNames, msg : MsgValues, fattr : FattrValues]
\* the rows of a response, from the field values of each row
AsmStepRows(b) ==
  [i \in 1..Len(b) |-> [id |-> i, name |-> b[i].name, msg |-> b[i].msg,
                        fattr |-> b[i].fattr]]
ImageRows(b) == [i \in 1..Len(b) |-> [imageid |-> i, stepId |-> b[i]]]
TypeResponses == UNION {{[i \in 1..k |-> [plugintypeid |-> i]]} : k \in 0..MaxTypes}
\* Rows of the entity-scoped step query. Each row has its own name, so that an
\* entry of executionOrder identifies its step.
PipeNames == <<"s1", "s2", "s3", "s4">>
PipeMsgValues == {"Create", "Update", Undefined}
PipeStepBodies == [stage : Stages, rank : Ranks, msg : PipeMsgValues,
                   typeId : TypeIds \cup {Null}]
PipeStepRows(b) ==
  [i \in 1..Len(b) |-> [id |-> i, name |-> PipeNames[i], stage |-> b[i].stage,
                        rank |-> b[i].rank, msg |-> b[i].msg, typeId |-> b[i].typeId]]
\* plugintypes(id)?$expand=pluginassemblyid: the owning assembly, when resolved
TypeLookupResponses == {[name |-> "Contoso.Plugins"]}
EntityNames == {"account"}

\* the assembly-by-name query: a response without `value`, zero rows, one row
AssemblyRow(name) == [pluginassemblyid |-> 1, name |-> name]
AssemblyResponses(name) ==
  {[present |-> FALSE, value |-> <<>>],
   [present |-> TRUE, value |-> <<>>],
   [present |-> TRUE, value |-> <<AssemblyRow(name)>>]}

VARIABLES
  configComplete,      \* index.ts POWERPLATFORM_CONFIG has all four values
  powerPlatformClient, \* index.ts: the lazily created client ("null" / "client")
  op,                  \* the tool handler that is running
  pc,                  \* the await the running operation is at
  arg,                 \* the handler's argument (assembly name / entity / component)
  calls,               \* log of the remote reads issued by the running operation
  assemblies,          \* getPluginAssemblyComplete: the assembly-by-name response
  pluginTypes,         \* getPluginAssemblyComplete: pluginTypes.value
  steps,               \* allSteps / steps.value
  images,              \* allImages
  typeQueue,           \* getEntityPluginPipeline: pluginTypeIds still to look up
  assemblyMap,         \* getEntityPluginPipeline: assemblyMap, as a set of pairs
  remoteEdges,         \* the dependency edges the remote holds for the component
  depOutcome,          \* what checkDependencies did (returned / threw)
  serviceResult,       \* what the service method returned or threw
  toolResult,          \* what the tool handler returned to the caller
  firstCall,           \* what an earlier, identical call read and returned
  options,             \* getPluginTraceLogs: the options of the call in flight
  filterString,        \* getPluginTraceLogs: the $filter of the read in flight
  logs,                \* getPluginTraceLogs: logs.value
  clock,               \* Date.now(), in minutes
  accessToken,         \* PowerPlatformClient.accessToken (a token id)
  tokenExpirationTime, \* PowerPlatformClient.tokenExpirationTime
  requests,            \* the get() calls made on the client, in starting order
  issued               \* the tokens the authority has issued, by token id

vars == <<configComplete, powerPlatformClient, op, pc, arg, calls, assemblies, pluginTypes,
          steps, images, typeQueue, assemblyMap, remoteEdges, depOutcome,
          serviceResult, toolResult, firstCall, options, filterString, logs,
          clock, accessToken, tokenExpirationTime, requests, issued>>

None == [kind |-> "none"]

NoResponse == [present |-> FALSE, value |-> <<>>]
locals == <<assemblies, pluginTypes, steps, images, typeQueue, assemblyMap>>
depVars == <<remoteEdges, depOutcome>>
\* the request of getPluginTraceLogs while its read is in flight
traceIn == <<options, filterString>>
\* the client's token cache and the get() calls on it; the service
\* operations take the outcome of a get() as given (it answers or it fails
\* with one of RemoteCauses) and leave these alone
clientVars == <<clock, accessToken, tokenExpirationTime, requests, issued>>
elsewhere == <<logs, firstCall, clientVars>>

\* `accessToken: string | null = null`: no token cached
NoToken == 0
\* no earlier call is being repeated
NoCall == [kind |-> "none"]
\* getPluginTraceLogs is not running
NoOptions == [kind |-> "none"]
NoFilter == [clauses |-> <<>>, joiner |-> ""]

\* no tool call is running, nothing has been read, and the client (once it
\* exists) has no token and has served no request
NothingRead ==
  /\ op = "none"
  /\ arg = Undefined
  /\ calls = <<>>
  /\ assemblies = NoResponse
  /\ pluginTypes = <<>>
  /\ steps = <<>>
  /\ images = <<>>
  /\ typeQueue = <<>>
  /\ assemblyMap = {}
  /\ remoteEdges = <<>>
  /\ depOutcome = None
  /\ serviceResult = None
  /\ toolResult = None
  /\ firstCall = NoCall
  /\ options = NoOptions
  /\ filterString = NoFilter
  /\ logs = <<>>
  /\ clock = 0
  /\ accessToken = NoToken
  /\ tokenExpirationTime = 0
  /\ requests = <<>>
  /\ issued = <<>>

Fresh == pc = "idle" /\ NothingRead

Init ==
  /\ configComplete \in BOOLEAN
  /\ powerPlatformClient = "null"
  /\ Fresh

\* the module has been loaded (configuration read from the environment, tools
\* registered) and main() is about to run
InitStartup ==
  /\ configComplete \in BOOLEAN
  /\ powerPlatformClient = "null"
  /\ pc = "main"
  /\ NothingRead

\* a PowerPlatformClient has been constructed (the configuration is complete)
InitClient ==
  /\ configComplete = TRUE
  /\ powerPlatformClient = "client"
  /\ Fresh

\* ------------------------------------------------------ results and errors
Thrown(message) == [kind |-> "throw", message |-> message]
Returned(value) == [kind |-> "return", value |-> value]
\* a handler's catch: one text content, `${prefix}${error.message}`; a text
\* is kept as the sequence of the pieces the template concatenates
ToolErrorRethrown(prefix, message) == [kind |-> "throw", message |-> message]
ToolError(prefix, message) == [kind |-> "error", text |-> <<prefix>> \o message]
ToolSuccess(result) == [kind |-> "success", structuredContent |-> result]

\* PowerPlatformClient.get's catch: `PowerPlatform API request failed: ${error}`
ApiError(cause) == <<"PowerPlatform API request failed: ", cause>>
\* getPluginAssemblyComplete: `Plugin assembly '${assemblyName}' not found`
NotFoundAsApiError(name) == <<"PowerPlatform API request failed: ", "AxiosError: Request failed">>
NotFoundError(name) == <<"Plugin assembly '", name, "' not found">>
\* getClient: `Missing PowerPlatform configuration: ...`
ConfigError == <<"Missing PowerPlatform configuration: ", "organizationUrl, clientId, clientSecret, tenantId">>

AsmPrefix == "Failed to get plugin assembly: "
PipePrefix == "Failed to get entity plugin pipeline: "
DepPrefix == "Failed to check delete eligibility: "

\* one remote read: the entity set, the value the filter (or the path) names,
\* the ids of a disjunctive id filter, and whether the read succeeded
Call(endpoint, key, ids, ok) ==
  [endpoint |-> endpoint, key |-> key, ids |-> ids, ok |-> ok]

\* ctx.getXService() -> getClient(): throws when the client does not exist
\* yet and the configuration is incomplete
GetClientNeverThrows == FALSE
GetClientThrows == powerPlatformClient = "null" /\ ~configComplete

\* A tool handler starts: its try block calls ctx.getXService() and then the
\* service method, which runs up to its first await.
Invoke(name, a, prefix, first) ==
  /\ pc = "idle"
  /\ op' = name
  /\ arg' = a
  /\ IF GetClientThrows
       THEN /\ toolResult' = ToolError(prefix, ConfigError)
            /\ pc' = "done"
            /\ UNCHANGED powerPlatformClient
       ELSE /\ powerPlatformClient' = "client"
            /\ pc' = first
            /\ UNCHANGED toolResult
  /\ UNCHANGED <<configComplete, calls, locals, depVars, serviceResult, elsewhere>>

\* client.get rejects: no catch in the service method, so the error reaches
\* the handler's catch
GetFailsAndGoesOn(endpoint, key, ids, prefix) ==
  /\ calls' = Append(calls, Call(endpoint, key, ids, FALSE))
  /\ UNCHANGED <<configComplete, powerPlatformClient, op, pc, arg, locals, depVars,
                 serviceResult, toolResult, elsewhere>>
GetFails(endpoint, key, ids, prefix) ==
  \E cause \in RemoteCauses :
    /\ calls' = Append(calls, Call(endpoint, key, ids, FALSE))
    /\ serviceResult' = Thrown(ApiError(cause))
    /\ toolResult' = ToolError(prefix, ApiError(cause))
    /\ pc' = "done"
    /\ UNCHANGED <<configComplete, powerPlatformClient, op, arg, locals, depVars, elsewhere>>

\* ------------------------------------------- getPluginAssemblyComplete
\* pluginTypes.value.map((pt) => pt.plugintypeid)
PluginTypeIdsOf(types) == [i \in 1..Len(types) |-> types[i].plugintypeid]
\* allSteps.map((s) => s.sdkmessageprocessingstepid)
StepIds(rows) == [i \in 1..Len(rows) |-> rows[i].id]
\* `if (pluginTypeIds.length > 0)`: the step query is issued
HasPluginTypeIdsAlways(pluginTypeIds) == TRUE
HasPluginTypeIds(pluginTypeIds) == Len(pluginTypeIds) > 0
\* `if (stepIds.length > 0)`: the image query is issued
HasStepIdsAlways(stepIds) == TRUE
HasStepIds(stepIds) == Len(stepIds) > 0
\* stepsWithImages: each step with the images whose owning-step id is its id
ImagesOfAnyStep(stepId, allImages) == allImages
ImagesOf(stepId, allImages) ==
  LET Owned(img) == img.stepId = stepId IN SelectSeq(allImages, Owned)
StepsWithImages(allSteps, allImages) ==
  [i \in 1..Len(allSteps) |->
     [id |-> allSteps[i].id, name |-> allSteps[i].name, msg |-> allSteps[i].msg,
      fattr |-> allSteps[i].fattr, images |-> ImagesOf(allSteps[i].id, allImages)]]

NamesOf(ss) == [i \in 1..Len(ss) |-> ss[i].name]

UpdateOrDelete(msgName) == msgName = "Update" \/ msgName = "Delete"

LacksFilteringAttributes(s) == UpdateOrDelete(s.msg) /\ Falsy(s.fattr)
LacksImages(s) == Len(s.images) = 0 /\ UpdateOrDelete(s.msg)

StepsWithoutFilteringAttributes(swi) == NamesOf(SelectSeq(swi, LacksFilteringAttributes))
StepsWithoutImages(swi) == NamesOf(SelectSeq(swi, LacksImages))

FilteringIssue == " Update/Delete steps without filtering attributes (performance concern)"
ImagesIssue == " Update/Delete steps without images (may need entity data)"
\* an issue line is `${count}${text}`
PotentialIssuesUnguarded(noFattr, noImages) ==
  <<[count |-> Len(noFattr), text |-> FilteringIssue],
    [count |-> Len(noImages), text |-> ImagesIssue]>>
PotentialIssues(noFattr, noImages) ==
  (IF Len(noFattr) > 0 THEN <<[count |-> Len(noFattr), text |-> FilteringIssue]>> ELSE <<>>)
  \o (IF Len(noImages) > 0 THEN <<[count |-> Len(noImages), text |-> ImagesIssue]>> ELSE <<>>)

Validation(swi) ==
  [stepsWithoutFilteringAttributes |-> StepsWithoutFilteringAttributes(swi),
   stepsWithoutImages |-> StepsWithoutImages(swi),
   potentialIssues |-> PotentialIssues(StepsWithoutFilteringAttributes(swi),
                                       StepsWithoutImages(swi))]

AssemblyComplete(name, types, allSteps, allImages) ==
  LET stepsWithImages == StepsWithImages(allSteps, allImages)
  IN [assembly |-> AssemblyRow(name),
      pluginTypes |-> types,
      steps |-> stepsWithImages,
      validation |-> Validation(stepsWithImages)]

\* the service method returns and the handler wraps the result
AsmReturn(types, allSteps, allImages) ==
  LET result == AssemblyComplete(arg, types, allSteps, allImages)
  IN /\ serviceResult' = Returned(result)
     /\ toolResult' = ToolSuccess(result)
     /\ pc' = "done"

InvokeGetPluginAssemblyComplete ==
  \E name \in AssemblyNames :
    /\ Invoke("getPluginAssemblyComplete", name, AsmPrefix, "asm_assembly")
    /\ UNCHANGED traceIn

AsmFetchAssembly ==
  /\ pc = "asm_assembly"
  /\ \/ (GetFails("pluginassemblies", arg, <<>>, AsmPrefix) /\ UNCHANGED traceIn)
     \/ \E r \in AssemblyResponses(arg) :
          /\ calls' = Append(calls, Call("pluginassemblies", arg, <<>>, TRUE))
          /\ assemblies' = r
          /\ IF ~r.present \/ Len(r.value) = 0
               THEN /\ serviceResult' = Thrown(NotFoundError(arg))
                    /\ toolResult' = ToolError(AsmPrefix, NotFoundError(arg))
                    /\ pc' = "done"
               ELSE /\ pc' = "asm_types"
                    /\ UNCHANGED <<serviceResult, toolResult>>
          /\ UNCHANGED <<configComplete, powerPlatformClient, op, arg, pluginTypes, steps,
                         images, typeQueue, assemblyMap, depVars,
                         traceIn, elsewhere>>

AsmFetchTypes ==
  /\ pc = "asm_types"
  /\ \/ (GetFails("plugintypes", "", <<>>, AsmPrefix) /\ UNCHANGED traceIn)
     \/ \E r \in TypeResponses :
          /\ calls' = Append(calls, Call("plugintypes", "", <<>>, TRUE))
          /\ pluginTypes' = r
          /\ IF HasPluginTypeIds(PluginTypeIdsOf(r))
               THEN /\ pc' = "asm_steps"
                    /\ UNCHANGED <<serviceResult, toolResult>>
               ELSE AsmReturn(r, <<>>, <<>>)
          /\ UNCHANGED <<configComplete, powerPlatformClient, op, arg, assemblies, steps,
                         images, typeQueue, assemblyMap, depVars,
                         traceIn, elsewhere>>

AsmFetchSteps ==
  /\ pc = "asm_steps"
  /\ \/ (GetFails("sdkmessageprocessingsteps", "", PluginTypeIdsOf(pluginTypes), AsmPrefix) /\ UNCHANGED traceIn)
     \/ \E k \in 0..MaxSteps : \E b \in [1..k -> AsmStepBodies] :
        LET r == AsmStepRows(b) IN
          /\ calls' = Append(calls, Call("sdkmessageprocessingsteps", "", PluginTypeIdsOf(pluginTypes), TRUE))
          /\ steps' = r
          /\ IF HasStepIds(StepIds(r))
               THEN /\ pc' = "asm_images"
                    /\ UNCHANGED <<serviceResult, toolResult>>
               ELSE AsmReturn(pluginTypes, r, <<>>)
          /\ UNCHANGED <<configComplete, powerPlatformClient, op, arg, assemblies,
                         pluginTypes, images, typeQueue, assemblyMap, depVars,
                         traceIn, elsewhere>>

AsmFetchImages ==
  /\ pc = "asm_images"
  /\ \/ (GetFails("sdkmessageprocessingstepimages", "", StepIds(steps), AsmPrefix) /\ UNCHANGED traceIn)
     \/ \E k \in 0..MaxImages : \E b \in [1..k -> 0..Len(steps)] :
        LET r == ImageRows(b) IN
          /\ calls' = Append(calls, Call("sdkmessageprocessingstepimages", "", StepIds(steps), TRUE))
          /\ images' = r
          /\ AsmReturn(pluginTypes, steps, r)
          /\ UNCHANGED <<configComplete, powerPlatformClient, op, arg, assemblies,
                         pluginTypes, steps, typeQueue, assemblyMap, depVars,
                         traceIn, elsewhere>>

\* --------------------------------------------- getEntityPluginPipeline
\* [...new Set(ids)]: first occurrences, in order
UniqKeepAll(s, acc) == acc \o s
RECURSIVE Uniq(_, _)
Uniq(s, acc) ==
  IF s = <<>> THEN acc
  ELSE Uniq(Tail(s), IF \E i \in 1..Len(acc) : acc[i] = Head(s)
                       THEN acc ELSE Append(acc, Head(s)))

PluginTypeIds(rows) ==
  LET NotNull(id) == ~Nullish(id)
  IN Uniq(SelectSeq([i \in 1..Len(rows) |-> rows[i].typeId], NotNull), <<>>)

\* assemblyMap.get(id)?.name
AssemblyNameOf(map, id) ==
  IF \E e \in map : e[1] = id THEN (CHOOSE e \in map : e[1] = id)[2] ELSE Undefined

StageName(stage) ==
  IF stage = StagePreValidation THEN "PreValidation"
  ELSE IF stage = StagePreOperation THEN "PreOperation"
  ELSE "PostOperation"

FormatStep(step, map, allImages) ==
  [sdkmessageprocessingstepid |-> step.id,
   name |-> step.name,
   stage |-> step.stage,
   stageName |-> StageName(step.stage),
   rank |-> step.rank,
   message |-> step.msg,
   assemblyName |-> AssemblyNameOf(map, step.typeId),
   images |-> ImagesOf(step.id, allImages)]

\* steps.value.map(...): one formatted step per row, in the rows' order
FormattedStepsReversed(rows, map, allImages) ==
  [i \in 1..Len(rows) |-> FormatStep(rows[Len(rows) + 1 - i], map, allImages)]
FormattedSteps(rows, map, allImages) ==
  [i \in 1..Len(rows) |-> FormatStep(rows[i], map, allImages)]

EmptyStages == [preValidation |-> <<>>, preOperation |-> <<>>, postOperation |-> <<>>]

\* the three `if (step.stage === ...) push` lines
PushStage(stages, step) ==
  IF step.stage = StagePreValidation
    THEN [stages EXCEPT !.preValidation = Append(@, step)]
  ELSE IF step.stage = StagePreOperation
    THEN [stages EXCEPT !.preOperation = Append(@, step)]
  ELSE IF step.stage = StagePostOperation
    THEN [stages EXCEPT !.postOperation = Append(@, step)]
  ELSE stages

\* messageGroups: a Map in insertion order, keyed by step.message (undefined
\* is a key like any other)
HasGroup(groups, key) == \E i \in 1..Len(groups) : groups[i].messageName = key
WithGroup(groups, key) ==
  IF HasGroup(groups, key) THEN groups
  ELSE Append(groups, [messageName |-> key, stages |-> EmptyStages])

RECURSIVE GroupSteps(_, _)
GroupSteps(fs, groups) ==
  IF fs = <<>> THEN groups
  ELSE LET step == Head(fs)
           g == WithGroup(groups, step.message)
           k == CHOOSE i \in 1..Len(g) : g[i].messageName = step.message
       IN GroupSteps(Tail(fs), [g EXCEPT ![k].stages = PushStage(@, step)])

Reverse(s) == [i \in 1..Len(s) |-> s[Len(s) + 1 - i]]
ExecutionOrderReversed(fs) == Reverse(NamesOf(fs))
ExecutionOrder(fs) == NamesOf(fs)

\* `const messageGroups = new Map()`: every call starts from an empty map
KeptMessageGroups ==
  IF firstCall.kind = "none" THEN <<>> ELSE firstCall.result.messages
NewMessageGroups == <<>>

Pipeline(entity, rows, map, allImages) ==
  LET formattedSteps == FormattedSteps(rows, map, allImages)
  IN [entity |-> entity,
      messages |-> GroupSteps(formattedSteps, NewMessageGroups),
      steps |-> formattedSteps,
      executionOrder |-> ExecutionOrder(formattedSteps)]

PipeReturn(rows, map, allImages) ==
  LET result == Pipeline(arg, rows, map, allImages)
  IN /\ serviceResult' = Returned(result)
     /\ toolResult' = ToolSuccess(result)
     /\ pc' = "done"

\* What the remote can answer. While a call is being repeated against an
\* unchanged data set, each read is answered as it was for the first call.
Repeating == firstCall.kind # "none"
PipeStepBodiesOf(rows) ==
  [i \in 1..Len(rows) |-> [stage |-> rows[i].stage, rank |-> rows[i].rank,
                           msg |-> rows[i].msg, typeId |-> rows[i].typeId]]
ImageOwnersOf(rows) == [i \in 1..Len(rows) |-> rows[i].stepId]
RemoteStepCounts == IF Repeating THEN {Len(firstCall.steps)} ELSE 0..MaxSteps
RemoteStepBodies(k) ==
  IF Repeating THEN {PipeStepBodiesOf(firstCall.steps)} ELSE [1..k -> PipeStepBodies]
RemoteTypeLookups(typeId) ==
  IF Repeating
    THEN {r \in TypeLookupResponses : <<typeId, r.name>> \in firstCall.assemblyMap}
    ELSE TypeLookupResponses
RemoteImageCounts == IF Repeating THEN {Len(firstCall.images)} ELSE 0..MaxImages
RemoteImageOwners(k) ==
  IF Repeating THEN {ImageOwnersOf(firstCall.images)} ELSE [1..k -> 0..Len(steps)]

InvokeGetEntityPluginPipeline ==
  \E entity \in EntityNames :
    /\ Invoke("getEntityPluginPipeline", entity, PipePrefix, "pipe_steps")
    /\ UNCHANGED traceIn

PipeFetchSteps ==
  /\ pc = "pipe_steps"
  /\ \/ (GetFails("sdkmessageprocessingsteps", arg, <<>>, PipePrefix) /\ UNCHANGED traceIn)
     \/ \E k \in RemoteStepCounts : \E b \in RemoteStepBodies(k) :
        LET r == PipeStepRows(b) IN
          /\ calls' = Append(calls, Call("sdkmessageprocessingsteps", arg, <<>>, TRUE))
          /\ steps' = r
          /\ typeQueue' = PluginTypeIds(r)
          /\ IF Len(PluginTypeIds(r)) > 0
               THEN /\ pc' = "pipe_type"
                    /\ UNCHANGED <<serviceResult, toolResult>>
               ELSE IF HasStepIds(StepIds(r))
                 THEN /\ pc' = "pipe_images"
                      /\ UNCHANGED <<serviceResult, toolResult>>
                 ELSE PipeReturn(r, assemblyMap, <<>>)
          /\ UNCHANGED <<configComplete, powerPlatformClient, op, arg, assemblies,
                         pluginTypes, images, assemblyMap, depVars,
                         traceIn, elsewhere>>

\* one iteration of `for (const typeId of pluginTypeIds)`
PipeFetchType ==
  /\ pc = "pipe_type"
  /\ typeQueue # <<>>
  /\ \/ (GetFails("plugintypes", Head(typeQueue), <<>>, PipePrefix) /\ UNCHANGED traceIn)
     \/ \E r \in RemoteTypeLookups(Head(typeQueue)) :
          /\ calls' = Append(calls, Call("plugintypes", Head(typeQueue), <<>>, TRUE))
          /\ assemblyMap' = assemblyMap \cup {<<Head(typeQueue), r.name>>}
          /\ typeQueue' = Tail(typeQueue)
          /\ IF Tail(typeQueue) # <<>>
               THEN /\ pc' = "pipe_type"
                    /\ UNCHANGED <<serviceResult, toolResult>>
               ELSE IF HasStepIds(StepIds(steps))
                 THEN /\ pc' = "pipe_images"
                      /\ UNCHANGED <<serviceResult, toolResult>>
                 ELSE PipeReturn(steps, assemblyMap', <<>>)
          /\ UNCHANGED <<configComplete, powerPlatformClient, op, arg, assemblies,
                         pluginTypes, steps, images, depVars,
                         traceIn, elsewhere>>

PipeFetchImages ==
  /\ pc = "pipe_images"
  /\ \/ (GetFails("sdkmessageprocessingstepimages", "", StepIds(steps), PipePrefix) /\ UNCHANGED traceIn)
     \/ \E k \in RemoteImageCounts : \E b \in RemoteImageOwners(k) :
        LET r == ImageRows(b) IN
          /\ calls' = Append(calls, Call("sdkmessageprocessingstepimages", "", StepIds(steps), TRUE))
          /\ images' = r
          /\ PipeReturn(steps, assemblyMap, r)
          /\ UNCHANGED <<configComplete, powerPlatformClient, op, arg, assemblies,
                         pluginTypes, steps, typeQueue, assemblyMap, depVars,
                         traceIn, elsewhere>>

\* The handler has returned a result and the caller makes the same call
\* again, the remote data set being unchanged: the second call starts from
\* fresh locals on the client that exists, and what the first call read and
\* returned is kept for comparison.
RepeatGetEntityPluginPipeline ==
  /\ op = "getEntityPluginPipeline"
  /\ pc = "done"
  /\ serviceResult.kind = "return"
  /\ ~Repeating
  /\ firstCall' = [kind |-> "call", arg |-> arg, steps |-> steps,
                   assemblyMap |-> assemblyMap, images |-> images,
                   result |-> serviceResult.value]
  /\ pc' = "pipe_steps"
  /\ calls' = <<>>
  /\ steps' = <<>>
  /\ images' = <<>>
  /\ typeQueue' = <<>>
  /\ assemblyMap' = {}
  /\ serviceResult' = None
  /\ toolResult' = None
  /\ UNCHANGED <<configComplete, powerPlatformClient, op, arg, assemblies, pluginTypes,
                 depVars, traceIn, logs, clientVars>>

\* ------------------------------------------------- DependencyService
\* The methods PowerPlatformClient has. checkDependencies calls
\* this.client.post, which the class does not define: the call throws a
\* TypeError inside the async method, i.e. checkDependencies rejects.
PowerPlatformClientMethods == {"get"}
PostTypeError == <<"this.client.post is not a function">>

DepEdges == {"edge"}
ComponentIds == {"c1", "c2"}
\* component type codes the tool's description names (entity, assembly, step)
ComponentTypes == {1, 80, 92}

\* What the dependency query resolves with, as far as checkDeleteEligibility
\* looks into it: the value itself, its EntityCollection and that
\* collection's Entities can each be undefined, null or what is expected.
Absent == {"undefined", "null"}
Response(result, collection, entities, rows) ==
  [result |-> result, collection |-> collection, entities |-> entities, rows |-> rows]
WellFormed(edges) == Response("object", "object", "array", edges)
Malformed ==
  {Response(r, "undefined", "undefined", <<>>) : r \in Absent}
  \cup {Response("object", c, "undefined", <<>>) : c \in Absent}
  \cup {Response("object", "object", e, <<>>) : e \in Absent}
\* the answers of the remote dependency query for a component with the given
\* edges: the edge collection, a value of another shape, or a failure
RemoteAnswers(edges) ==
  {Returned(WellFormed(edges))} \cup {Returned(m) : m \in Malformed}
  \cup {Thrown(ApiError(c)) : c \in RemoteCauses}

\* what `await this.checkDependencies(...)` can do for a component with the
\* given edges: with a post method the remote is asked; without one, the
\* call throws
CheckDependenciesOutcomes(edges) ==
  IF "post" \in PowerPlatformClientMethods
    THEN RemoteAnswers(edges)
    ELSE {Thrown(PostTypeError)}

CatchCanDelete == [canDelete |-> TRUE, dependencies |-> <<>>]
CatchResult == [canDelete |-> FALSE, dependencies |-> <<>>]

\* `result.EntityCollection?.Entities || []`
DependenciesOf(value) ==
  IF value.collection = "object" /\ value.entities = "array" THEN value.rows ELSE <<>>

\* the try body and the catch of checkDeleteEligibility; reading a property
\* of an undefined or null result throws inside the try
CheckDeleteEligibility(outcome) ==
  IF outcome.kind = "throw" THEN CatchResult
  ELSE IF outcome.value.result \in Absent THEN CatchResult
  ELSE LET dependencies == DependenciesOf(outcome.value)
       IN [canDelete |-> Len(dependencies) = 0, dependencies |-> dependencies]

InvokeCheckDeleteEligibility ==
  \E componentId \in ComponentIds :
    /\ Invoke("checkDeleteEligibility", componentId, DepPrefix, "dep_check")
    /\ UNCHANGED traceIn

DepCheckDependencies ==
  /\ pc = "dep_check"
  /\ \E edges \in SeqsUpTo(DepEdges, MaxDeps) :
       \E outcome \in CheckDependenciesOutcomes(edges) :
         /\ remoteEdges' = edges
         /\ depOutcome' = outcome
         /\ calls' = IF "post" \in PowerPlatformClientMethods
                       THEN Append(calls, Call("RetrieveDependenciesForDelete", arg, <<>>,
                                               outcome.kind = "return"))
                       ELSE calls
         /\ serviceResult' = Returned(CheckDeleteEligibility(outcome))
         /\ toolResult' = ToolSuccess(CheckDeleteEligibility(outcome))
         /\ pc' = "done"
  /\ UNCHANGED <<configComplete, powerPlatformClient, op, arg, locals, traceIn, elsewhere>>

\* the check-component-dependencies handler: checkDependencies itself, whose
\* rejection reaches the handler's catch
CompPrefix == "Failed to check component dependencies: "
InvokeCheckComponentDependencies ==
  \E componentId \in ComponentIds :
    /\ Invoke("checkDependencies", componentId, CompPrefix, "comp_check")
    /\ UNCHANGED traceIn

CompCheckDependencies ==
  /\ pc = "comp_check"
  /\ \E edges \in SeqsUpTo(DepEdges, MaxDeps) :
       \E outcome \in CheckDependenciesOutcomes(edges) :
         /\ remoteEdges' = edges
         /\ depOutcome' = outcome
         /\ calls' = IF "post" \in PowerPlatformClientMethods
                       THEN Append(calls, Call("RetrieveDependenciesForDelete", arg, <<>>,
                                               outcome.kind = "return"))
                       ELSE calls
         /\ serviceResult' = outcome
         /\ toolResult' = IF outcome.kind = "throw"
                            THEN ToolError(CompPrefix, outcome.message)
                            ELSE ToolSuccess(outcome.value)
         /\ pc' = "done"
  /\ UNCHANGED <<configComplete, powerPlatformClient, op, arg, locals, traceIn, elsewhere>>

\* checkDeleteEligibility on a service whose client provides the dependency
\* query (the write-like read primitive, object id + component type -> edge
\* collection): the handler starts ...
InvokeCheckDeleteEligibilityOfType ==
  \E componentId \in ComponentIds : \E componentType \in ComponentTypes :
    /\ Invoke("checkDeleteEligibility",
              [componentId |-> componentId, componentType |-> componentType],
              DepPrefix, "dep_query")
    /\ UNCHANGED traceIn

\* ... and the query settles: the remote answers or the request fails
DepQuerySettles ==
  /\ pc = "dep_query"
  /\ \E edges \in SeqsUpTo(DepEdges, MaxDeps) :
       \E outcome \in RemoteAnswers(edges) :
         /\ remoteEdges' = edges
         /\ depOutcome' = outcome
         /\ calls' = Append(calls, Call("RetrieveDependenciesForDelete", arg.componentId,
                                        <<>>, outcome.kind = "return"))
         /\ serviceResult' = Returned(CheckDeleteEligibility(outcome))
         /\ toolResult' = ToolSuccess(CheckDeleteEligibility(outcome))
         /\ pc' = "done"
  /\ UNCHANGED <<configComplete, powerPlatformClient, op, arg, locals, traceIn, elsewhere>>

\* --------------------------------------------------- getPluginTraceLogs
\* Exception texts are kept character by character: a letter, the colon, a
\* blank and the line feed are the characters the parsing tells apart.
Chars == {"a", ":", " ", "\n"}
Whitespace == {" ", "\n"}
\* a field that is undefined, null or a string
Str(chars) == [kind |-> "string", chars |-> chars]
NullValue == [kind |-> "null", chars |-> <<>>]
UndefinedValue == [kind |-> "undefined", chars |-> <<>>]
\* JS truthiness of such a field: a non-empty string
Truthy(v) == v.kind = "string" /\ v.chars # <<>>

\* String.prototype.indexOf(c): 0-based index of the first c, or -1
IndexOf(s, c) ==
  IF \E i \in 1..Len(s) : s[i] = c
    THEN (CHOOSE i \in 1..Len(s) : s[i] = c /\ \A j \in 1..(i - 1) : s[j] # c) - 1
    ELSE -1
\* String.prototype.substring(from) and substring(0, to), 0-based
SubstringFrom(s, from) == SubSeq(s, from + 1, Len(s))
SubstringTo(s, to) == SubSeq(s, 1, to)
\* String.prototype.trim()
RECURSIVE TrimStart(_)
TrimStart(s) ==
  IF s # <<>> /\ Head(s) \in Whitespace THEN TrimStart(Tail(s)) ELSE s
RECURSIVE TrimEnd(_)
TrimEnd(s) ==
  IF s # <<>> /\ s[Len(s)] \in Whitespace THEN TrimEnd(SubSeq(s, 1, Len(s) - 1)) ELSE s
Trim(s) == TrimEnd(TrimStart(s))
\* exceptionDetails.split('\n')[0]
FirstLine(s) == IF IndexOf(s, "\n") = -1 THEN s ELSE SubstringTo(s, IndexOf(s, "\n"))

\* exceptionDetails.match(/^([^:]+):/): from the start of the text, one or
\* more characters other than a colon (line feeds included), then a colon;
\* match[1] is what precedes the first colon of the whole text
ExtractExceptionType(exceptionDetails) ==
  LET colon == IndexOf(exceptionDetails, ":")
  IN IF colon >= 1 THEN Str(Trim(SubstringTo(exceptionDetails, colon))) ELSE NullValue

ExtractExceptionMessage(exceptionDetails) ==
  LET firstLine == FirstLine(exceptionDetails)
      colonIndex == IndexOf(firstLine, ":")
  IN IF colonIndex > 0 THEN Str(Trim(SubstringFrom(firstLine, colonIndex + 1)))
     ELSE NullValue

\* `!!log.exceptiondetails`
HasExceptionIfPresent(exceptiondetails) == exceptiondetails.kind = "string"
HasException(exceptiondetails) == Truthy(exceptiondetails)

\* one element of parsedLogs
ParseLog(log) ==
  [plugintracelogid |-> log.plugintracelogid,
   exceptiondetails |-> log.exceptiondetails,
   parsed |->
     [hasException |-> HasException(log.exceptiondetails),
      exceptionType |-> IF Truthy(log.exceptiondetails)
                          THEN ExtractExceptionType(log.exceptiondetails.chars)
                          ELSE NullValue,
      exceptionMessage |-> IF Truthy(log.exceptiondetails)
                             THEN ExtractExceptionMessage(log.exceptiondetails.chars)
                             ELSE NullValue,
      stackTrace |-> log.exceptiondetails]]

TraceLogs(rows) ==
  [totalCount |-> Len(rows), logs |-> [i \in 1..Len(rows) |-> ParseLog(rows[i])]]

\* the exceptiondetails a log row can carry
ExceptionDetails ==
  {UndefinedValue, NullValue} \cup {Str(t) : t \in SeqsUpTo(Chars, MaxTextLen)}
LogRows(b) == [i \in 1..Len(b) |-> [plugintracelogid |-> i, exceptiondetails |-> b[i]]]

\* The tool's input: four optional strings (zod accepts the empty string), an
\* optional boolean and an optional number.
OptionStrings == {Undefined, "", "x"}
Given(v) == [given |-> TRUE, value |-> v]
NotGiven(v) == [given |-> FALSE, value |-> v]
\* `v ?? d`
Coalesce(v, d) == IF v.given THEN v.value ELSE d
DefaultHoursBack == 24
MinutesPerHour == 60
TraceLogInputs ==
  [entityName : OptionStrings, messageName : OptionStrings,
   correlationId : OptionStrings, pluginStepId : OptionStrings,
   exceptionOnly : {NotGiven(FALSE), Given(FALSE), Given(TRUE)},
   hoursBack : {NotGiven(0), Given(1)}]
\* the options object the handler passes, with the time the method reads
\* (`new Date()`)
Options(input, now) ==
  [kind |-> "options",
   now |-> now,
   entityName |-> input.entityName,
   messageName |-> input.messageName,
   correlationId |-> input.correlationId,
   pluginStepId |-> input.pluginStepId,
   exceptionOnly |-> Coalesce(input.exceptionOnly, FALSE),
   hoursBack |-> Coalesce(input.hoursBack, DefaultHoursBack)]

\* one element of `filters`: `${field} ${operator} ${value}`, the value kept
\* as the pieces the template concatenates
Clause(field, operator, value) == [field |-> field, operator |-> operator, value |-> value]
\* dateThreshold.setHours(dateThreshold.getHours() - hoursBack)
DateThresholdAhead(now, hoursBack) == now + hoursBack * MinutesPerHour
DateThreshold(now, hoursBack) == now - hoursBack * MinutesPerHour
Quoted(v) == <<"'", v, "'">>
Filters(o) ==
  <<Clause("createdon", "gt", <<DateThreshold(o.now, o.hoursBack)>>)>>
  \o (IF ~Falsy(o.entityName)
        THEN <<Clause("primaryentity", "eq", Quoted(o.entityName))>> ELSE <<>>)
  \o (IF ~Falsy(o.messageName)
        THEN <<Clause("messagename", "eq", Quoted(o.messageName))>> ELSE <<>>)
  \o (IF ~Falsy(o.correlationId)
        THEN <<Clause("correlationid", "eq", Quoted(o.correlationId))>> ELSE <<>>)
  \o (IF ~Falsy(o.pluginStepId)
        THEN <<Clause("_sdkmessageprocessingstepid_value", "eq", <<o.pluginStepId>>)>>
        ELSE <<>>)
  \o (IF o.exceptionOnly
        THEN <<Clause("exceptiondetails", "ne", <<"null">>)>> ELSE <<>>)
\* filters.join(' and ')
FilterString(filters) == [clauses |-> filters, joiner |-> " and "]

TracePrefix == "Failed to get plugin trace logs: "

\* The handler starts; the method builds the filter string of its read.
InvokeGetPluginTraceLogs ==
  \E input \in TraceLogInputs :
    /\ Invoke("getPluginTraceLogs", Undefined, TracePrefix, "trace_filter")
    /\ options' = Options(input, clock)
    /\ filterString' = IF GetClientThrows THEN NoFilter
                       ELSE FilterString(Filters(Options(input, clock)))

\* `await this.client.get(...)`: the read is on its way. Neither the options
\* nor the filter string is read after the await, so they are dropped here.
TraceIssueRead ==
  /\ pc = "trace_filter"
  /\ pc' = "trace_logs"
  /\ options' = NoOptions
  /\ filterString' = NoFilter
  /\ UNCHANGED <<configComplete, powerPlatformClient, op, arg, calls, locals, depVars,
                 serviceResult, toolResult, elsewhere>>

\* the read answers or fails
TraceFetchLogs ==
  /\ pc = "trace_logs"
  /\ UNCHANGED traceIn
  /\ \/ GetFails("plugintracelogs", "", <<>>, TracePrefix)
     \/ \E k \in 0..MaxLogs : \E b \in [1..k -> ExceptionDetails] :
        LET r == LogRows(b) IN
          /\ calls' = Append(calls, Call("plugintracelogs", "", <<>>, TRUE))
          /\ logs' = r
          /\ serviceResult' = Returned(TraceLogs(r))
          /\ toolResult' = ToolSuccess(TraceLogs(r))
          /\ pc' = "done"
          /\ UNCHANGED <<configComplete, powerPlatformClient, op, arg, locals, depVars,
                         firstCall, clientVars>>

\* time passes
Tick ==
  /\ clock < MaxClock
  /\ clock' = clock + 1
  /\ UNCHANGED <<configComplete, powerPlatformClient, op, pc, arg, calls, locals, depVars,
                 serviceResult, toolResult, firstCall, traceIn, logs,
                 accessToken, tokenExpirationTime, requests, issued>>

\* -------------------------------------------------- getPluginAssemblies
\* ishidden of a row: a boolean, a {Value: boolean} wrapper, or not there
IsHiddenValues ==
  [kind : {"boolean", "wrapper"}, value : BOOLEAN] \cup {[kind |-> "absent", value |-> FALSE]}
\* isHidden = ishidden?.Value !== undefined ? ishidden.Value : ishidden,
\* by truthiness (a wrapper object itself is truthy)
IsHiddenRaw(ishidden) == ishidden.kind = "wrapper" \/ (ishidden.kind = "boolean" /\ ishidden.value)
IsHidden(ishidden) == ishidden.kind # "absent" /\ ishidden.value

ListBodies(includeManaged) ==
  [ishidden : IsHiddenValues, ismanaged : IF includeManaged THEN BOOLEAN ELSE {FALSE}]
ListRows(b) ==
  [i \in 1..Len(b) |-> [pluginassemblyid |-> i, ishidden |-> b[i].ishidden,
                        ismanaged |-> b[i].ismanaged]]
\* .filter(!isHidden).map(...), totalCount: formattedAssemblies.length
PluginAssemblies(rows) ==
  LET Shown(row) == ~IsHidden(row.ishidden)
      kept == SelectSeq(rows, Shown)
      formattedAssemblies ==
        [i \in 1..Len(kept) |-> [pluginassemblyid |-> kept[i].pluginassemblyid,
                                 isManaged |-> kept[i].ismanaged]]
  IN [totalCount |-> Len(formattedAssemblies), assemblies |-> formattedAssemblies]

DefaultMaxRecords == 100
ListPrefix == "Failed to get plugin assemblies: "
ListInputs ==
  [includeManaged : {NotGiven(FALSE), Given(FALSE), Given(TRUE)},
   maxRecords : {NotGiven(0)} \cup {Given(n) : n \in 1..MaxAssemblies}]
\* the arguments the handler passes: includeManaged ?? false, maxRecords ?? 100
ListArgs(input) ==
  [includeManaged |-> Coalesce(input.includeManaged, FALSE),
   maxRecords |-> Coalesce(input.maxRecords, DefaultMaxRecords)]
ManagedFilter(includeManaged) == IF includeManaged THEN "" ELSE "$filter=ismanaged eq false&"
\* reading `.filter` of a response without `value`
NoValueTypeError == <<"Cannot read properties of undefined (reading 'filter')">>

InvokeGetPluginAssemblies ==
  \E input \in ListInputs :
    /\ Invoke("getPluginAssemblies", ListArgs(input), ListPrefix, "list_assemblies")
    /\ UNCHANGED traceIn

\* the one read settles: it fails, or the remote answers with at most $top
\* rows (unmanaged ones only when the managed filter was sent), or with a
\* body that has no `value`
ListFetchAssemblies ==
  /\ pc = "list_assemblies"
  /\ \/ (GetFails("pluginassemblies", ManagedFilter(arg.includeManaged), <<>>, ListPrefix)
         /\ UNCHANGED traceIn)
     \/ /\ calls' = Append(calls, Call("pluginassemblies", ManagedFilter(arg.includeManaged),
                                        <<>>, TRUE))
        /\ \/ /\ assemblies' = NoResponse
              /\ serviceResult' = Thrown(NoValueTypeError)
              /\ toolResult' = ToolError(ListPrefix, NoValueTypeError)
           \/ \E k \in 0..MaxAssemblies : \E b \in [1..k -> ListBodies(arg.includeManaged)] :
                /\ k <= arg.maxRecords
                /\ assemblies' = [present |-> TRUE, value |-> ListRows(b)]
                /\ serviceResult' = Returned(PluginAssemblies(ListRows(b)))
                /\ toolResult' = ToolSuccess(PluginAssemblies(ListRows(b)))
        /\ pc' = "done"
        /\ UNCHANGED <<configComplete, powerPlatformClient, op, arg, pluginTypes, steps,
                       images, typeQueue, assemblyMap, depVars, traceIn, elsewhere>>

\* -------------------------------------------------- getEntityAttributes
\* A logical name is kept as the pieces the suffix tests tell apart: "a"
\* (any other text), "yomi" and "name"; <<>> is the empty name, which is also
\* what `attribute.LogicalName || ''` gives for a row without LogicalName.
NamePieces == {"a", "yomi", "name"}
EndsWith(n, suffix) ==
  /\ Len(n) >= Len(suffix)
  /\ \A k \in 1..Len(suffix) : n[Len(n) - Len(suffix) + k] = suffix[k]
\* logicalName.endsWith('name') && logicalName.length > 4
IsNameAttribute(n) == EndsWith(n, <<"name">>) /\ Len(n) > 1
\* logicalName.slice(0, -4)
BaseName(n) == SubSeq(n, 1, Len(n) - 1)
AttributeRows(b) == [i \in 1..Len(b) |-> [id |-> i, LogicalName |-> b[i]]]

\* the two passes over response.value
FilterAttributes(rows) ==
  LET NotYomi(row) == ~EndsWith(row.LogicalName, <<"yomi", "name">>)
      value == SelectSeq(rows, NotYomi)
      baseNames == {value[i].LogicalName : i \in {k \in 1..Len(value) :
                                                  ~IsNameAttribute(value[k].LogicalName)}}
      \* namesAttributes.set(baseName, attribute): the last row wins
      NamesAttribute(i) ==
        /\ IsNameAttribute(value[i].LogicalName)
        /\ \A j \in (i + 1)..Len(value) :
             IsNameAttribute(value[j].LogicalName)
               => BaseName(value[j].LogicalName) # BaseName(value[i].LogicalName)
      attributesToRemove ==
        {value[i].id : i \in {k \in 1..Len(value) :
                               /\ NamesAttribute(k)
                               /\ BaseName(value[k].LogicalName) \in baseNames}}
      Kept(row) == row.id \notin attributesToRemove
  IN SelectSeq(value, Kept)

\* `if (response && response.value)`: a body without value is returned as is
EntityAttributes(response) ==
  IF response.present THEN [present |-> TRUE, value |-> FilterAttributes(response.value)]
  ELSE response

AttrPrefix == "Failed to get entity attributes: "

InvokeGetEntityAttributes ==
  \E entityName \in EntityNames :
    /\ Invoke("getEntityAttributes", entityName, AttrPrefix, "attr_read")
    /\ UNCHANGED traceIn

AttrFetchAttributes ==
  /\ pc = "attr_read"
  /\ \/ (GetFails("EntityDefinitions", arg, <<>>, AttrPrefix) /\ UNCHANGED traceIn)
     \/ \E response \in {NoResponse} \cup
                         {[present |-> TRUE, value |-> AttributeRows(b)] :
                            b \in SeqsUpTo(SeqsUpTo(NamePieces, MaxNameLen), MaxAttributes)} :
          /\ calls' = Append(calls, Call("EntityDefinitions", arg, <<>>, TRUE))
          /\ assemblies' = response
          /\ serviceResult' = Returned(EntityAttributes(response))
          /\ toolResult' = ToolSuccess(EntityAttributes(response))
          /\ pc' = "done"
          /\ UNCHANGED <<configComplete, powerPlatformClient, op, arg, pluginTypes, steps,
                         images, typeQueue, assemblyMap, depVars, traceIn, elsewhere>>

\* ------------------------------------------------- PowerPlatformClient
\* Each get() awaits getAccessToken and then the HTTP request. Several get()
\* calls can be in flight on the one client; each continuation runs when its
\* await settles. Times are in minutes.
RefreshEarly == 5
\* how long after its acquisition a token expires
Lifetimes == {RefreshEarly + 1, RefreshEarly + 2}
serviceVars == <<configComplete, powerPlatformClient, op, pc, arg, calls, locals, depVars,
                 serviceResult, toolResult, firstCall, traceIn, logs>>

\* `this.accessToken && this.tokenExpirationTime > currentTime`
TokenUsableAtExpiry(currentTime) ==
  accessToken # NoToken /\ tokenExpirationTime >= currentTime
TokenUsable(currentTime) ==
  accessToken # NoToken /\ tokenExpirationTime > currentTime

\* what acquireTokenByClientCredential resolves with: a new token, with
\* expiresOn (`Date | null`) given or not; the token's expiry is kept either way
AcquireResults(now) ==
  {[accessToken |-> Len(issued) + 1, expiresOn |-> e] :
     e \in {Given(now + l) : l \in Lifetimes} \cup {NotGiven(now + l) : l \in Lifetimes}}

\* `this.accessToken = result.accessToken`
KeepAccessToken(result) == accessToken
NewAccessToken(result) == result.accessToken
\* `if (result.expiresOn) this.tokenExpirationTime = expiresOn - 5 minutes`
NewExpirationTime(result) ==
  IF result.expiresOn.given THEN result.expiresOn.value - RefreshEarly
  ELSE tokenExpirationTime

\* the throw of line 69 and a rejected acquisition reach the catch before
\* line 72: the cached token stays
AccessTokenCleared == NoToken
AccessTokenAfterFailure == accessToken

\* get() is called: getAccessToken reads the clock and either returns the
\* cached token (the request goes out with it) or starts an acquisition
GetBegin ==
  /\ Len(requests) < MaxRequests
  /\ requests' =
       Append(requests,
              IF TokenUsable(clock)
                THEN [pc |-> "axios", start |-> clock, saw |-> accessToken,
                      acquires |-> FALSE, token |-> accessToken, at |-> clock]
                ELSE [pc |-> "acquire", start |-> clock, saw |-> accessToken,
                      acquires |-> TRUE, token |-> NoToken, at |-> clock])
  /\ UNCHANGED <<serviceVars, clock, accessToken, tokenExpirationTime, issued>>

\* no get() is in flight
NoneInFlight == \A i \in 1..Len(requests) : requests[i].pc \in {"ok", "failed"}
\* get() is called while no other get() is in flight
GetBeginAlone == NoneInFlight /\ GetBegin

\* the acquisition of request i settles: it rejects or resolves without a
\* token (getAccessToken throws 'Authentication failed', get rethrows), or it
\* resolves with a token, which is cached and returned
AcquireDone(i) ==
  /\ requests[i].pc = "acquire"
  /\ \/ /\ requests' = [requests EXCEPT ![i].pc = "failed", ![i].at = clock]
        /\ accessToken' = AccessTokenAfterFailure
        /\ UNCHANGED <<tokenExpirationTime, issued>>
     \/ \E result \in AcquireResults(clock) :
          /\ issued' = Append(issued, result)
          /\ accessToken' = NewAccessToken(result)
          /\ tokenExpirationTime' = NewExpirationTime(result)
          /\ requests' = [requests EXCEPT ![i].pc = "axios",
                                          ![i].token = NewAccessToken(result),
                                          ![i].at = clock]
  /\ UNCHANGED <<serviceVars, clock>>

\* the HTTP request of request i settles
AxiosDone(i) ==
  /\ requests[i].pc = "axios"
  /\ \E outcome \in {"ok", "failed"} :
       requests' = [requests EXCEPT ![i].pc = outcome]
  /\ UNCHANGED <<serviceVars, clock, accessToken, tokenExpirationTime, issued>>

\* main(): the transport connects and the server serves tool calls, whatever
\* the configuration; if connect rejects, main's catch exits the process
Main ==
  /\ pc = "main"
  /\ pc' \in {"idle", "exited"}
  /\ UNCHANGED <<configComplete, powerPlatformClient, op, arg, calls, locals, depVars,
                 serviceResult, toolResult, traceIn, elsewhere>>

\* the handler has returned; the next tool call starts from fresh locals
\* (the created client is kept)
Finish ==
  /\ pc = "done"
  /\ pc' = "idle"
  /\ op' = "none"
  /\ arg' = Undefined
  /\ calls' = <<>>
  /\ assemblies' = NoResponse
  /\ pluginTypes' = <<>>
  /\ steps' = <<>>
  /\ images' = <<>>
  /\ typeQueue' = <<>>
  /\ assemblyMap' = {}
  /\ remoteEdges' = <<>>
  /\ depOutcome' = None
  /\ serviceResult' = None
  /\ toolResult' = None
  /\ firstCall' = NoCall
  /\ options' = NoOptions
  /\ filterString' = NoFilter
  /\ logs' = <<>>
  /\ UNCHANGED <<configComplete, powerPlatformClient, clientVars>>

NextAssembly ==
  \/ InvokeGetPluginAssemblyComplete
  \/ AsmFetchAssembly
  \/ AsmFetchTypes
  \/ AsmFetchSteps
  \/ AsmFetchImages
  \/ InvokeCheckDeleteEligibility
  \/ DepCheckDependencies
  \/ Finish

NextPipeline ==
  \/ InvokeGetEntityPluginPipeline
  \/ PipeFetchSteps
  \/ PipeFetchType
  \/ PipeFetchImages
  \/ Finish

\* the entity-scoped operation, and the same call made a second time
NextPipelineTwice ==
  \/ NextPipeline
  \/ RepeatGetEntityPluginPipeline

NextTraceLogs ==
  \/ InvokeGetPluginTraceLogs
  \/ TraceIssueRead
  \/ TraceFetchLogs
  \/ Tick
  \/ Finish

\* get() calls on one client, any number of them in flight
NextClient ==
  \/ GetBegin
  \/ \E i \in 1..Len(requests) : AcquireDone(i)
  \/ \E i \in 1..Len(requests) : AxiosDone(i)
  \/ Tick

\* get() calls on one client, one after the other
NextClientSequential ==
  \/ GetBeginAlone
  \/ \E i \in 1..Len(requests) : AcquireDone(i)
  \/ \E i \in 1..Len(requests) : AxiosDone(i)
  \/ Tick

\* the eligibility check against a remote that answers the dependency query
NextDependencyQuery ==
  \/ InvokeCheckDeleteEligibilityOfType
  \/ DepQuerySettles
  \/ Finish

\* the assembly listing
NextAssemblies ==
  \/ InvokeGetPluginAssemblies
  \/ ListFetchAssemblies
  \/ Finish

\* the attribute listing
NextAttributes ==
  \/ InvokeGetEntityAttributes
  \/ AttrFetchAttributes
  \/ Finish

\* every tool of registerPluginTools and registerDependencyTools
NextTools ==
  \/ InvokeGetPluginAssemblies
  \/ ListFetchAssemblies
  \/ InvokeGetPluginAssemblyComplete
  \/ AsmFetchAssembly
  \/ AsmFetchTypes
  \/ AsmFetchSteps
  \/ AsmFetchImages
  \/ InvokeGetEntityPluginPipeline
  \/ PipeFetchSteps
  \/ PipeFetchType
  \/ PipeFetchImages
  \/ InvokeGetPluginTraceLogs
  \/ TraceIssueRead
  \/ TraceFetchLogs
  \/ InvokeCheckComponentDependencies
  \/ CompCheckDependencies
  \/ InvokeCheckDeleteEligibility
  \/ DepCheckDependencies
  \/ Finish

\* the process from startup on
NextServer ==
  \/ Main
  \/ NextTools

Next == NextAssembly \/ NextPipeline

Spec == Init /\ [][Next]_vars
\* the assembly-scoped operation and the dependency check alone
SpecAssembly == Init /\ [][NextAssembly]_vars
\* the entity-scoped operation alone
SpecPipeline == Init /\ [][NextPipeline]_vars
SpecPipelineTwice == Init /\ [][NextPipelineTwice]_vars
\* the trace-log query alone, with the clock
SpecTraceLogs == Init /\ [][NextTraceLogs]_vars
\* the client alone: its token cache under concurrent and sequential requests
SpecClient == InitClient /\ [][NextClient]_vars
SpecClientSequential == InitClient /\ [][NextClientSequential]_vars
\* the assembly listing alone
SpecAssemblies == Init /\ [][NextAssemblies]_vars
\* the attribute listing alone
SpecAttributes == Init /\ [][NextAttributes]_vars
\* all plugin and dependency tools, one call at a time
SpecTools == Init /\ [][NextTools]_vars
\* the server process: startup, then the tools
SpecServer == InitStartup /\ [][NextServer]_vars
\* the eligibility check alone, the dependency query being answered
SpecDependencyQuery == Init /\ [][NextDependencyQuery]_vars

\* ====================================================== properties
Range(s) == {s[i] : i \in 1..Len(s)}

AsmReturned ==
  op = "getPluginAssemblyComplete" /\ pc = "done" /\ serviceResult.kind = "return"
PipeReturned ==
  op = "getEntityPluginPipeline" /\ pc = "done" /\ serviceResult.kind = "return"
DepDone == op = "checkDeleteEligibility" /\ pc = "done" /\ depOutcome.kind # "none"

\* the remote rows came in the order the step query asks for
\* ($orderby=stage,rank)
SortedByStageRank(rows) ==
  \A i, j \in 1..Len(rows) :
    i < j => \/ rows[i].stage < rows[j].stage
             \/ rows[i].stage = rows[j].stage /\ rows[i].rank <= rows[j].rank

\* the fetched row an executionOrder entry names
RowNamed(n) == CHOOSE r \in Range(steps) : r.name = n

StageBefore(a, b) ==
  \/ a = StagePreValidation /\ b \in {StagePreOperation, StagePostOperation}
  \/ a = StagePreOperation /\ b = StagePostOperation

\* no entry of a later stage precedes an entry of an earlier stage, and
\* within a stage the ranks do not decrease
StageThenRankOrdered(order) ==
  /\ \A i \in 1..Len(order) : \E r \in Range(steps) : r.name = order[i]
  /\ \A i, j \in 1..Len(order) :
       i < j => /\ ~StageBefore(RowNamed(order[j]).stage, RowNamed(order[i]).stage)
                /\ RowNamed(order[i]).stage = RowNamed(order[j]).stage
                     => RowNamed(order[i]).rank <= RowNamed(order[j]).rank

\* C1 as stated: for every result of getEntityPluginPipeline, whatever order
\* the remote returned the step rows in, executionOrder lists the stage-10
\* steps before the stage-20 steps before the stage-40 steps, ranks
\* non-decreasing within a stage.
C1_OrderedWhateverTheRemoteOrder ==
  PipeReturned => StageThenRankOrdered(serviceResult.value.executionOrder)

\* C1 amended: when the remote returned the step rows in the requested
\* (stage, rank) ascending order, executionOrder lists the stage-10 steps
\* before the stage-20 steps before the stage-40 steps, ranks non-decreasing
\* within a stage.
C1_OrderedWhenRemoteSorted ==
  (PipeReturned /\ SortedByStageRank(steps))
    => StageThenRankOrdered(serviceResult.value.executionOrder)

C1_Witness ==
  /\ PipeReturned
  /\ SortedByStageRank(steps)
  /\ Len(serviceResult.value.executionOrder) >= 2
  /\ \E i, j \in 1..Len(steps) : StageBefore(steps[i].stage, steps[j].stage)

BucketTotal(groups) ==
  LET Size(g) == Len(g.stages.preValidation) + Len(g.stages.preOperation)
                 + Len(g.stages.postOperation)
      RECURSIVE Sum(_)
      Sum(i) == IF i = 0 THEN 0 ELSE Size(groups[i]) + Sum(i - 1)
  IN Sum(Len(groups))

\* C2: for every result of getEntityPluginPipeline, the length of
\* executionOrder equals the number of steps held in the preValidation,
\* preOperation and postOperation buckets of all message groups, for every
\* stage value a returned step can carry.
C2_LengthEqualsBucketTotal ==
  PipeReturned
    => Len(serviceResult.value.executionOrder) = BucketTotal(serviceResult.value.messages)

\* the claim's conditions, on the rows the remote returned
OnUpdateOrDelete(row) == row.msg \in {"Update", "Delete"}
NoFilteringAttributes(row) == row.fattr \notin (FattrValues \ {Null, Undefined, ""})
HasNoImage(row) == \A k \in 1..Len(images) : images[k].stepId # row.id

\* C3: the names in validation.stepsWithoutFilteringAttributes are, one entry
\* per step and in step order, the names of exactly the steps whose message
\* is Update or Delete and whose filtering-attribute value is empty or
\* absent; a step on another message or with no resolved message has no entry.
C3_StepsWithoutFilteringAttributes ==
  AsmReturned =>
    LET Flagged(row) == OnUpdateOrDelete(row) /\ NoFilteringAttributes(row)
    IN serviceResult.value.validation.stepsWithoutFilteringAttributes
         = NamesOf(SelectSeq(steps, Flagged))

C3_Witness ==
  /\ AsmReturned
  /\ Len(serviceResult.value.validation.stepsWithoutFilteringAttributes) = 1
  /\ \E i, j \in 1..Len(steps) :
       /\ steps[i].msg = "Update" /\ steps[i].fattr = ""
       /\ steps[j].msg \notin {"Update", "Delete"} /\ steps[j].fattr = Null

\* C4: the names in validation.stepsWithoutImages are, one entry per step and
\* in step order, the names of exactly the steps whose message is Update or
\* Delete and whose id is the owning-step id of no fetched image; a Create
\* step has no entry even with zero images.
C4_StepsWithoutImages ==
  AsmReturned =>
    LET Flagged(row) == OnUpdateOrDelete(row) /\ HasNoImage(row)
    IN serviceResult.value.validation.stepsWithoutImages
         = NamesOf(SelectSeq(steps, Flagged))

C4_Witness ==
  /\ AsmReturned
  /\ Len(images) > 0
  /\ Len(serviceResult.value.validation.stepsWithoutImages) = 1
  /\ \E i, j \in 1..Len(steps) :
       /\ steps[i].msg = "Delete" /\ HasNoImage(steps[i])
       /\ steps[j].msg = "Update" /\ ~HasNoImage(steps[j])

\* C5: potentialIssues holds exactly one entry for each of the two lists that
\* is non-empty and no other entry (so 0, 1 or 2 entries), and each entry
\* states the length of its list.
C5_PotentialIssues ==
  AsmReturned =>
    LET v == serviceResult.value.validation
        noFattr == v.stepsWithoutFilteringAttributes
        noImages == v.stepsWithoutImages
        Entries(text) == {k \in 1..Len(v.potentialIssues) : v.potentialIssues[k].text = text}
    IN /\ Len(v.potentialIssues) \in 0..2
       /\ Cardinality(Entries(FilteringIssue)) = IF Len(noFattr) > 0 THEN 1 ELSE 0
       /\ Cardinality(Entries(ImagesIssue)) = IF Len(noImages) > 0 THEN 1 ELSE 0
       /\ \A k \in 1..Len(v.potentialIssues) :
            /\ v.potentialIssues[k].text \in {FilteringIssue, ImagesIssue}
            /\ v.potentialIssues[k].text = FilteringIssue
                 => v.potentialIssues[k].count = Len(noFattr)
            /\ v.potentialIssues[k].text = ImagesIssue
                 => v.potentialIssues[k].count = Len(noImages)

\* the spec's scenario: a Create step and an Update step without filtering
\* attributes, no images: two issue lines
C5_Witness ==
  /\ AsmReturned
  /\ Len(steps) = 2
  /\ steps[1].msg = "Create" /\ steps[2].msg = "Update" /\ steps[2].fattr = Null
  /\ images = <<>>
  /\ Len(serviceResult.value.validation.potentialIssues) = 2

\* C6: checkDeleteEligibility never propagates a failure of checkDependencies:
\* whenever the dependency call throws, it returns
\* {canDelete: false, dependencies: []}.
C6_FailureIsSwallowed ==
  (DepDone /\ depOutcome.kind = "throw")
    => /\ serviceResult = Returned([canDelete |-> FALSE, dependencies |-> <<>>])
       /\ toolResult.kind = "success"

C6_Witness == DepDone /\ depOutcome.kind = "throw" /\ serviceResult.kind = "return"

\* C7: checkDeleteEligibility on a component that has zero dependency edges
\* returns {canDelete: true, dependencies: []}, and in every successful result
\* canDelete is true exactly when the returned dependencies list is empty.
C7_NoEdgesCanDelete ==
  DepDone =>
    /\ remoteEdges = <<>>
         => serviceResult = Returned([canDelete |-> TRUE, dependencies |-> <<>>])
    /\ depOutcome.kind = "return"
         => (serviceResult.value.canDelete <=> serviceResult.value.dependencies = <<>>)

\* the texts a caller sees for a failed remote read of the assembly operation
RemoteFailureTexts == {ToolError(AsmPrefix, ApiError(c)).text : c \in RemoteCauses}
ZeroAssemblyRows ==
  /\ op = "getPluginAssemblyComplete"
  /\ Len(calls) >= 1
  /\ calls[1].ok
  /\ ~assemblies.present \/ Len(assemblies.value) = 0

\* C8: getPluginAssemblyComplete fails with an "assembly not found" error when
\* the assembly-by-name query returns zero rows; no plugin-type, step or image
\* query is issued then, and the text the caller sees is not the text of a
\* failed remote read (and a failed remote read never gives the not-found text).
C8_AssemblyNotFound ==
  /\ ZeroAssemblyRows
       => /\ pc = "done"
          /\ serviceResult = Thrown(<<"Plugin assembly '", arg, "' not found">>)
          /\ calls = <<Call("pluginassemblies", arg, <<>>, TRUE)>>
          /\ toolResult.kind = "error"
          /\ toolResult.text \notin RemoteFailureTexts
  /\ (op = "getPluginAssemblyComplete" /\ \E i \in 1..Len(calls) : ~calls[i].ok)
       => /\ toolResult.kind = "error"
          /\ toolResult.text # ToolError(AsmPrefix, NotFoundError(arg)).text

C8_Witness ==
  /\ ZeroAssemblyRows
  /\ assemblies.present
  /\ toolResult.kind = "error"

\* C9: in getPluginAssemblyComplete and getEntityPluginPipeline a failed
\* remote read is the last read the operation issues (none follows it, it is
\* not issued again), the operation has ended, the service method threw and
\* the caller got an error instead of a result.
C9_FailedReadAbortsOperation ==
  op \in {"getPluginAssemblyComplete", "getEntityPluginPipeline"} =>
    \A i \in 1..Len(calls) :
      ~calls[i].ok =>
        /\ i = Len(calls)
        /\ pc = "done"
        /\ serviceResult.kind = "throw"
        /\ toolResult.kind = "error"

\* a per-plugin-type lookup fails after an earlier lookup succeeded
C9_Witness ==
  /\ op = "getEntityPluginPipeline"
  /\ Len(calls) = 3
  /\ calls[2].endpoint = "plugintypes" /\ calls[2].ok
  /\ calls[3].endpoint = "plugintypes" /\ ~calls[3].ok
  /\ typeQueue # <<>>
  /\ toolResult.kind = "error"

InSomeBucket(groups, step) ==
  \E g \in Range(groups) :
    step \in Range(g.stages.preValidation) \cup Range(g.stages.preOperation)
             \cup Range(g.stages.postOperation)

\* C10: in getEntityPluginPipeline a step whose message name is absent does
\* not make assembly fail, is placed in no message group of `messages`, and
\* still appears in executionOrder.
C10_AbsentMessageOutsideGroups ==
  (op = "getEntityPluginPipeline" /\ pc = "done" /\ Len(calls) >= 1
     /\ \A i \in 1..Len(calls) : calls[i].ok) =>
    /\ serviceResult.kind = "return"
    /\ \A step \in Range(serviceResult.value.steps) :
         step.message = Undefined =>
           /\ ~InSomeBucket(serviceResult.value.messages, step)
           /\ step.name \in Range(serviceResult.value.executionOrder)

StageBuckets == {"preValidation", "preOperation", "postOperation"}
\* the places (group, bucket, position) of the grouped view that hold the step
PlacesOf(groups, step) ==
  {p \in (1..Len(groups)) \X StageBuckets \X (1..MaxSteps + 1) :
     /\ p[3] <= Len(groups[p[1]].stages[p[2]])
     /\ groups[p[1]].stages[p[2]][p[3]] = step}
\* position of a name in executionOrder
PosIn(order, n) == CHOOSE i \in 1..Len(order) : order[i] = n

\* C11: in every getEntityPluginPipeline result each step of `steps` is in
\* exactly one (message, stage) bucket of the grouped view, and within each
\* bucket the steps are in the same relative order as in executionOrder.
C11_GroupedViewMatchesExecutionOrder ==
  PipeReturned =>
    LET res == serviceResult.value
    IN /\ \A step \in Range(res.steps) :
            Cardinality(PlacesOf(res.messages, step)) = 1
       /\ \A g \in 1..Len(res.messages) : \A b \in StageBuckets :
            LET bucket == res.messages[g].stages[b]
            IN \A k, l \in 1..Len(bucket) :
                 k < l => PosIn(res.executionOrder, bucket[k].name)
                            < PosIn(res.executionOrder, bucket[l].name)

AsmCallsTo(endpoint) == {i \in 1..Len(calls) : calls[i].endpoint = endpoint}
NoPluginTypes ==
  /\ op = "getPluginAssemblyComplete"
  /\ Len(calls) >= 2
  /\ calls[2].endpoint = "plugintypes" /\ calls[2].ok
  /\ pluginTypes = <<>>

\* C15: in getPluginAssemblyComplete, when the resolved assembly has no plugin
\* types, no step query is issued (and none ever carries an empty id filter),
\* the operation returns, and the returned steps are empty.
C15_NoTypesNoStepQuery ==
  /\ NoPluginTypes
       => /\ AsmCallsTo("sdkmessageprocessingsteps") = {}
          /\ Len(calls) = 2
          /\ pc = "done"
          /\ serviceResult.kind = "return"
          /\ serviceResult.value.steps = <<>>
  /\ op = "getPluginAssemblyComplete"
       => \A i \in AsmCallsTo("sdkmessageprocessingsteps") :
            /\ calls[i].ids # <<>>
            /\ calls[i].ids = PluginTypeIdsOf(pluginTypes)

C15_Witness ==
  /\ NoPluginTypes
  /\ AsmReturned
  /\ serviceResult.value.pluginTypes = <<>>

\* C16: in getPluginAssemblyComplete and getEntityPluginPipeline, when the
\* step set is empty no image query is issued and the result has no steps;
\* when it is non-empty exactly one image query is issued, and its filter
\* names the id of every fetched step.
C16_ImageQueryOnlyForSteps ==
  op \in {"getPluginAssemblyComplete", "getEntityPluginPipeline"} =>
    LET imageCalls == AsmCallsTo("sdkmessageprocessingstepimages")
    IN /\ \A i \in imageCalls : calls[i].ids = StepIds(steps) /\ calls[i].ids # <<>>
       /\ Cardinality(imageCalls) <= 1
       /\ (pc = "done" /\ serviceResult.kind = "return") =>
            /\ steps = <<>> => imageCalls = {} /\ serviceResult.value.steps = <<>>
            /\ steps # <<>> => /\ Cardinality(imageCalls) = 1
                               /\ \A k \in 1..Len(steps) :
                                    \E i \in imageCalls :
                                      steps[k].id \in Range(calls[i].ids)

C16_Witness ==
  /\ PipeReturned
  /\ Len(steps) = MaxSteps
  /\ Cardinality(AsmCallsTo("sdkmessageprocessingstepimages")) = 1
  /\ Len(calls[Len(calls)].ids) = MaxSteps

\* the distinct non-null plugin-type ids of the fetched steps
DistinctTypeIds == {steps[k].typeId : k \in 1..Len(steps)} \ {Null, Undefined}
\* every plugin-type lookup of the operation has been issued
LookupsOver ==
  /\ op = "getEntityPluginPipeline"
  /\ pc \in {"pipe_images", "done"}
  /\ Len(calls) >= 1
  /\ \A i \in 1..Len(calls) : calls[i].endpoint = "plugintypes" => calls[i].ok

\* C17: getEntityPluginPipeline issues exactly one plugin-type lookup for each
\* distinct non-null plugin-type id in the fetched steps (never two for the
\* same id, none for an absent id), and every lookup is issued after the step
\* fetch has completed.
C17_OneLookupPerDistinctType ==
  op = "getEntityPluginPipeline" =>
    LET lookups == AsmCallsTo("plugintypes")
    IN /\ \A i \in lookups :
            /\ calls[i].key \in DistinctTypeIds
            /\ \E j \in 1..(i - 1) :
                 calls[j].endpoint = "sdkmessageprocessingsteps" /\ calls[j].ok
       /\ \A i, j \in lookups : calls[i].key = calls[j].key => i = j
       /\ (LookupsOver /\ calls[1].ok)
            => {calls[i].key : i \in lookups} = DistinctTypeIds

\* two steps of one plugin type and the lookups done: one lookup
C17_Witness ==
  /\ LookupsOver
  /\ Len(steps) = 2
  /\ steps[1].typeId = steps[2].typeId
  /\ steps[1].typeId # Null
  /\ Cardinality(AsmCallsTo("plugintypes")) = 1

TraceReturned ==
  op = "getPluginTraceLogs" /\ pc = "done" /\ serviceResult.kind = "return"

Least(S) == CHOOSE x \in S : \A y \in S : x <= y
Greatest(S) == CHOOSE x \in S : \A y \in S : x >= y
Positions(t, c) == {i \in 1..Len(t) : t[i] = c}
\* the text up to its first line feed
LineOne(t) ==
  IF Positions(t, "\n") = {} THEN t ELSE SubSeq(t, 1, Least(Positions(t, "\n")) - 1)
\* the text without its leading and trailing blanks and line feeds
Trimmed(t) ==
  LET solid == {i \in 1..Len(t) : t[i] \notin Whitespace}
  IN IF solid = {} THEN <<>> ELSE SubSeq(t, Least(solid), Greatest(solid))
TypeOnFirstLine(t) ==
  LET colons == Positions(LineOne(t), ":")
  IN IF colons = {} THEN NullValue
     ELSE Str(Trimmed(SubSeq(LineOne(t), 1, Least(colons) - 1)))
MessageOnFirstLine(t) ==
  LET colons == Positions(LineOne(t), ":")
  IN IF colons = {} THEN NullValue
     ELSE Str(Trimmed(SubSeq(LineOne(t), Least(colons) + 1, Len(LineOne(t)))))

\* C12: for every non-empty exception text of a returned trace log,
\* parsed.exceptionType is the trimmed text before the first colon of the
\* first line (null when the first line has no colon) and
\* parsed.exceptionMessage is the trimmed text after that colon on the first
\* line (null when there is none).
C12_TypeAndMessageFromFirstLine ==
  TraceReturned =>
    \A k \in 1..Len(logs) :
      Truthy(logs[k].exceptiondetails) =>
        LET parsed == serviceResult.value.logs[k].parsed
            text == logs[k].exceptiondetails.chars
        IN /\ parsed.exceptionType = TypeOnFirstLine(text)
           /\ parsed.exceptionMessage = MessageOnFirstLine(text)

TraceReadAnswered ==
  /\ op = "getPluginTraceLogs"
  /\ Len(calls) >= 1
  /\ calls[1].ok

\* C13: once the trace-log read has answered, getPluginTraceLogs returns (it
\* does not raise, whatever the exception texts are: absent, empty, without
\* colon, without line feed) every log with a parsed block; hasException is
\* true exactly when the exception field is present and non-empty, and when it
\* is false exceptionType and exceptionMessage are both null.
C13_ParsingNeverRaises ==
  TraceReadAnswered =>
    /\ pc = "done"
    /\ serviceResult.kind = "return"
    /\ toolResult.kind = "success"
    /\ serviceResult.value.totalCount = Len(logs)
    /\ Len(serviceResult.value.logs) = Len(logs)
    /\ \A k \in 1..Len(logs) :
         LET out == serviceResult.value.logs[k]
             details == logs[k].exceptiondetails
         IN /\ out.plugintracelogid = logs[k].plugintracelogid
            /\ out.exceptiondetails = details
            /\ out.parsed.hasException
                 <=> (details.kind = "string" /\ Len(details.chars) > 0)
            /\ ~out.parsed.hasException
                 => /\ out.parsed.exceptionType = NullValue
                    /\ out.parsed.exceptionMessage = NullValue

\* a log whose exception text is the empty string has been returned
C13_Witness ==
  /\ TraceReturned
  /\ Len(logs) = 1
  /\ logs[1].exceptiondetails = Str(<<>>)
  /\ ~serviceResult.value.logs[1].parsed.hasException

\* the filter string of the read the method is about to issue
FilterBuilt == op = "getPluginTraceLogs" /\ pc = "trace_filter"
ClausesOn(field) ==
  {i \in 1..Len(filterString.clauses) : filterString.clauses[i].field = field}
\* exactly one clause `field eq value` when wanted, none otherwise
OneEqualityClause(field, wanted, value) ==
  IF wanted
    THEN /\ Cardinality(ClausesOn(field)) = 1
         /\ \A i \in ClausesOn(field) :
              /\ filterString.clauses[i].operator = "eq"
              /\ value \in Range(filterString.clauses[i].value)
    ELSE ClausesOn(field) = {}
IsGiven(v) == v # Undefined
IsNonEmpty(v) == v # Undefined /\ v # Null /\ v # ""
FilterFor(Supplied(_)) ==
  /\ filterString.joiner = " and "
  /\ Cardinality(ClausesOn("createdon")) = 1
  /\ \A i \in ClausesOn("createdon") :
       /\ filterString.clauses[i].operator = "gt"
       /\ filterString.clauses[i].value
            = <<options.now - MinutesPerHour * options.hoursBack>>
  /\ OneEqualityClause("primaryentity", Supplied(options.entityName), options.entityName)
  /\ OneEqualityClause("messagename", Supplied(options.messageName), options.messageName)
  /\ OneEqualityClause("correlationid", Supplied(options.correlationId),
                       options.correlationId)
  /\ OneEqualityClause("_sdkmessageprocessingstepid_value",
                       Supplied(options.pluginStepId), options.pluginStepId)
  /\ Cardinality(ClausesOn("exceptiondetails")) = IF options.exceptionOnly THEN 1 ELSE 0
  /\ \A i \in ClausesOn("exceptiondetails") :
       /\ filterString.clauses[i].operator = "ne"
       /\ filterString.clauses[i].value = <<"null">>
  /\ \A i \in 1..Len(filterString.clauses) :
       filterString.clauses[i].field
         \in {"createdon", "primaryentity", "messagename", "correlationid",
              "_sdkmessageprocessingstepid_value", "exceptiondetails"}

\* C14 as stated: the trace-log filter is a conjunction that always contains
\* the time lower bound now - hoursBack, exactly one equality clause for each
\* of entityName, messageName, correlationId, pluginStepId that the caller
\* supplied and none for one not supplied, and the exception not-null clause
\* exactly when exceptionOnly is true.
C14_OneClausePerSuppliedField == FilterBuilt => FilterFor(IsGiven)

\* C14 amended: the same, with an equality clause exactly for each of the four
\* fields that was supplied as a non-empty string (an empty string adds no
\* clause).
C14_OneClausePerNonEmptyField == FilterBuilt => FilterFor(IsNonEmpty)

\* entityName given, messageName given as '', correlationId not given,
\* exceptionOnly true: three clauses
C14_Witness ==
  /\ FilterBuilt
  /\ options.entityName = "x"
  /\ options.messageName = ""
  /\ options.correlationId = Undefined
  /\ options.pluginStepId = Undefined
  /\ options.exceptionOnly
  /\ Len(filterString.clauses) = 3

\* the expiry the authority reported for a cached token, if it reported one
HasExpiry(token) == token # NoToken /\ issued[token].expiresOn.given
ExpiryOf(token) == issued[token].expiresOn.value

Acquirers == {i \in 1..Len(requests) : requests[i].acquires}
\* a token the authority issued that had not expired when the request got it
ValidFor(r) ==
  /\ r.token \in 1..Len(issued)
  /\ r.at < issued[r.token].expiresOn.value

\* C19: when requests run concurrently while the cached token is missing or
\* expired, under every interleaving each of them whose acquisition the
\* authority answered holds a valid token (the others failed on their own
\* acquisition), and once none of them is still acquiring the client caches
\* one of the tokens they acquired.
C19_RefreshRaceBenign ==
  /\ \A i \in Acquirers :
       requests[i].pc # "acquire" =>
         \/ ValidFor(requests[i])
         \/ requests[i].token = NoToken /\ requests[i].pc = "failed"
  /\ \A i \in 1..Len(requests) : requests[i].pc \in {"axios", "ok"} => ValidFor(requests[i])
  /\ ((\E i \in Acquirers : requests[i].token # NoToken)
        /\ \A i \in Acquirers : requests[i].pc # "acquire")
       => accessToken \in {requests[i].token : i \in Acquirers} \ {NoToken}

\* two requests found no token, both acquired one, and the continuation of
\* the first ran last: its token is the cached one
C19_Witness ==
  /\ Len(requests) = 2
  /\ Acquirers = {1, 2}
  /\ requests[1].saw = NoToken /\ requests[2].saw = NoToken
  /\ requests[1].token # NoToken /\ requests[2].token # NoToken
  /\ requests[1].token # requests[2].token
  /\ accessToken = requests[1].token
  /\ requests[1].token > requests[2].token

\* C23: step aggregation does no local re-sort: the `steps` returned by
\* getPluginAssemblyComplete and by getEntityPluginPipeline are the remote
\* rows, one for one and in the order the remote returned them, and
\* executionOrder[i] is the name of steps[i] for every i.
C23_NoLocalResort ==
  /\ AsmReturned =>
       LET out == serviceResult.value.steps
       IN /\ Len(out) = Len(steps)
          /\ \A i \in 1..Len(steps) :
               /\ out[i].id = steps[i].id
               /\ out[i].name = steps[i].name
               /\ out[i].msg = steps[i].msg
               /\ out[i].fattr = steps[i].fattr
  /\ PipeReturned =>
       LET res == serviceResult.value
       IN /\ Len(res.steps) = Len(steps)
          /\ Len(res.executionOrder) = Len(res.steps)
          /\ \A i \in 1..Len(steps) :
               /\ res.steps[i].sdkmessageprocessingstepid = steps[i].id
               /\ res.steps[i].name = steps[i].name
               /\ res.steps[i].stage = steps[i].stage
               /\ res.steps[i].rank = steps[i].rank
               /\ res.executionOrder[i] = res.steps[i].name

\* the remote returned a later stage before an earlier one, and a higher rank
\* before a lower one: the result keeps that order
C23_Witness ==
  /\ PipeReturned
  /\ Len(steps) = 2
  /\ steps[1].stage = StagePostOperation /\ steps[2].stage = StagePreValidation
  /\ steps[1].rank > steps[2].rank
  /\ serviceResult.value.executionOrder = <<steps[1].name, steps[2].name>>

\* the message names the returned steps carry (a step whose message did not
\* resolve carries none)
MessageNamesAmong(ss) == {ss[i].message : i \in 1..Len(ss)} \ {Undefined}
GroupsNamed(groups, m) == {g \in 1..Len(groups) : groups[g].messageName = m}

\* C24: the `messages` of a getEntityPluginPipeline result has exactly one
\* group per distinct message name among the returned steps and no other
\* group, and each step is bucketed only inside the group of its own message.
C24_OneGroupPerMessageName ==
  PipeReturned =>
    LET res == serviceResult.value
    IN /\ \A m \in MessageNamesAmong(res.steps) :
            Cardinality(GroupsNamed(res.messages, m)) = 1
       /\ Len(res.messages) = Cardinality(MessageNamesAmong(res.steps))
       /\ \A step \in Range(res.steps) :
            \A p \in PlacesOf(res.messages, step) :
              res.messages[p[1]].messageName = step.message

\* the bucket a stage label names
BucketLabelled(stageName) ==
  IF stageName = "PreValidation" THEN "preValidation"
  ELSE IF stageName = "PreOperation" THEN "preOperation"
  ELSE "postOperation"

\* C29: in every getEntityPluginPipeline result, for every stage value a row
\* can carry, a step labelled stageName 'PreValidation', 'PreOperation' or
\* 'PostOperation' is in the preValidation, preOperation or postOperation
\* bucket, respectively, of the group of its message, and in no other bucket.
C29_StageLabelMatchesBucket ==
  PipeReturned =>
    LET res == serviceResult.value
    IN \A step \in Range(res.steps) :
         /\ \E p \in PlacesOf(res.messages, step) :
              /\ p[2] = BucketLabelled(step.stageName)
              /\ res.messages[p[1]].messageName = step.message
         /\ \A p \in PlacesOf(res.messages, step) :
              p[2] = BucketLabelled(step.stageName)

\* the remote answered with a dependency collection that is present and empty
AnsweredPresentAndEmpty ==
  /\ depOutcome.kind = "return"
  /\ depOutcome.value.result = "object"
  /\ depOutcome.value.collection = "object"
  /\ depOutcome.value.entities = "array"
  /\ depOutcome.value.rows = <<>>

FailedAcquisition(i) ==
  requests[i].pc = "failed" /\ requests[i].acquires /\ requests[i].token = NoToken

\* C27: a failed credential acquisition makes its request fail, is not
\* retried within the request (the request stays failed and no token is
\* issued for it), leaves the cached token and the cached expiry unchanged,
\* and the next request attempts the acquisition again.
C27_FailedAcquisitionNotRetried ==
  /\ [](\A i \in 1..Len(requests) :
          (FailedAcquisition(i) /\ i < Len(requests)) => requests[i + 1].acquires)
  /\ [][\A i \in 1..Len(requests) :
          /\ (requests[i].pc = "acquire" /\ requests'[i].pc = "failed")
               => /\ requests'[i].token = NoToken
                  /\ accessToken' = accessToken
                  /\ tokenExpirationTime' = tokenExpirationTime
                  /\ issued' = issued
          /\ requests[i].pc = "failed" => requests'[i] = requests[i]]_vars

\* the second request found the cached token expired, its acquisition
\* failed, and the expired token and its expiry are still cached
C27_Witness ==
  /\ Len(requests) = 2
  /\ requests[1].token # NoToken
  /\ FailedAcquisition(2)
  /\ requests[2].saw = requests[1].token
  /\ accessToken = requests[1].token
  /\ HasExpiry(accessToken)
  /\ tokenExpirationTime = ExpiryOf(accessToken) - RefreshEarly

\* the time from which the token must be reacquired: its own expiry minus 5
\* minutes
RefreshPoint(token) == issued[token].expiresOn.value - RefreshEarly

\* C28: in every reachable state of the client, the cached expiry belongs to
\* the cached token: a request arriving now is handed the cached token only
\* before that token's own expiry minus 5 minutes, and every request that
\* was handed the cached token without reacquisition got it before then.
C28_CachedExpiryBelongsToToken ==
  /\ TokenUsable(clock) => clock < RefreshPoint(accessToken)
  /\ \A i \in 1..Len(requests) :
       ~requests[i].acquires => requests[i].start < RefreshPoint(requests[i].token)

ListReturned ==
  op = "getPluginAssemblies" /\ pc = "done" /\ serviceResult.kind = "return"
\* a row is hidden when ishidden, or the Value of its wrapper, is true
HiddenRow(row) == row.ishidden \in {[kind |-> k, value |-> TRUE] : k \in {"boolean", "wrapper"}}
ReturnedIds(result) ==
  [i \in 1..Len(result.assemblies) |-> result.assemblies[i].pluginassemblyid]

\* C21: getPluginAssemblies never returns a hidden assembly (ishidden given as
\* a boolean or as a {Value} wrapper), returns every non-hidden row the
\* remote sent (in the remote's order), and totalCount is the number of
\* returned assemblies, which is at most the number of rows fetched and at
\* most the limit.
C21_HiddenAssembliesExcluded ==
  ListReturned =>
    LET res == serviceResult.value
        rows == assemblies.value
        Visible(row) == ~HiddenRow(row)
    IN /\ ReturnedIds(res) = [i \in 1..Len(SelectSeq(rows, Visible)) |->
                                SelectSeq(rows, Visible)[i].pluginassemblyid]
       /\ \A i \in 1..Len(rows) :
            HiddenRow(rows[i]) => rows[i].pluginassemblyid \notin Range(ReturnedIds(res))
       /\ res.totalCount = Len(res.assemblies)
       /\ res.totalCount <= Len(rows)
       /\ Len(rows) <= arg.maxRecords

\* a hidden row (by wrapper) and a visible row (wrapper with Value false) were
\* fetched with limit 2: one assembly is returned, fewer than the limit
C21_Witness ==
  /\ ListReturned
  /\ arg.maxRecords = 2
  /\ Len(assemblies.value) = 2
  /\ assemblies.value[1].ishidden = [kind |-> "wrapper", value |-> TRUE]
  /\ assemblies.value[2].ishidden = [kind |-> "wrapper", value |-> FALSE]
  /\ serviceResult.value.totalCount = 1
  /\ ReturnedIds(serviceResult.value) = <<2>>

AttrReturned ==
  op = "getEntityAttributes" /\ pc = "done" /\ serviceResult.kind = "return"
     /\ serviceResult.value.present
\* what the claim removes: a name ending in 'yominame', and a name ending in
\* 'name' when another attribute of the response is named as it is without
\* the suffix
ToBeRemoved(rows, i) ==
  \/ EndsWith(rows[i].LogicalName, <<"yomi", "name">>)
  \/ /\ EndsWith(rows[i].LogicalName, <<"name">>)
     /\ \E j \in 1..Len(rows) :
          j # i /\ rows[j].LogicalName = BaseName(rows[i].LogicalName)

\* C25: getEntityAttributes removes every attribute whose logical name ends in
\* 'yominame' and every attribute whose logical name ends in 'name' when
\* another returned attribute has the same logical name without the 'name'
\* suffix; all other attributes are kept, in their original order.
C25_NameAttributesRemoved ==
  AttrReturned =>
    LET rows == assemblies.value
        Stays(row) == ~ToBeRemoved(rows, row.id)
    IN serviceResult.value.value = SelectSeq(rows, Stays)

\* the error prefix of the handler of each operation
PrefixOf(operation) ==
  CASE operation = "getPluginAssemblies" -> ListPrefix
    [] operation = "getPluginAssemblyComplete" -> AsmPrefix
    [] operation = "getEntityPluginPipeline" -> PipePrefix
    [] operation = "getPluginTraceLogs" -> TracePrefix
    [] operation = "checkDependencies" -> CompPrefix
    [] operation = "checkDeleteEligibility" -> DepPrefix

\* C22: every tool handler returns either a structured success payload or a
\* single descriptive error text and never throws: when the service method
\* throws (a failed remote read included) the caller gets the handler's
\* prefix followed by the error's message, when the client cannot be created
\* it gets the prefix followed by the missing-configuration message, and
\* otherwise it gets the service's result as structured content.
C22_HandlersNeverThrow ==
  /\ toolResult.kind \in {"none", "success", "error"}
  /\ pc = "done" =>
       /\ toolResult.kind \in {"success", "error"}
       /\ serviceResult.kind = "throw"
            => toolResult = [kind |-> "error",
                             text |-> <<PrefixOf(op)>> \o serviceResult.message]
       /\ serviceResult.kind = "return"
            => toolResult = [kind |-> "success", structuredContent |-> serviceResult.value]
       /\ serviceResult.kind = "none"
            => /\ ~configComplete /\ powerPlatformClient = "null" /\ calls = <<>>
               /\ toolResult = [kind |-> "error", text |-> <<PrefixOf(op)>> \o ConfigError]
       /\ (op # "checkDeleteEligibility" /\ \E i \in 1..Len(calls) : ~calls[i].ok)
            => toolResult.kind = "error"

\* the configuration is incomplete: the plugin-service getter throws inside
\* the trace-log handler's try and the caller gets the one error text
C22_Witness ==
  /\ ~configComplete
  /\ op = "getPluginTraceLogs"
  /\ pc = "done"
  /\ powerPlatformClient = "null"
  /\ toolResult.kind = "error"
  /\ toolResult.text[1] = TracePrefix

\* the server is serving tool calls: main has connected the transport
Serving == pc \notin {"main", "exited"}

\* C26 as stated: when a required connection parameter is absent, the
\* configuration error is fatal on the startup path: the server does not
\* start serving tool calls.
C26_ConfigErrorFatalAtStartup ==
  ~configComplete => ~Serving

\* C26 amended: when a required connection parameter is absent the server
\* still starts; no client is created and no remote read is issued, and
\* every tool call ends with the handler's error text carrying the
\* missing-configuration message.
C26_ConfigErrorOnEveryToolCall ==
  ~configComplete =>
    /\ powerPlatformClient = "null"
    /\ calls = <<>>
    /\ serviceResult.kind = "none"
    /\ (Serving /\ op # "none") =>
         /\ pc = "done"
         /\ toolResult = [kind |-> "error", text |-> <<PrefixOf(op)>> \o ConfigError]

\* with incomplete configuration the server has started and has answered a
\* tool call with the configuration error
C26_Witness ==
  /\ ~configComplete
  /\ Serving
  /\ op = "getPluginAssemblyComplete"
  /\ pc = "done"
  /\ toolResult.kind = "error"
  /\ toolResult.text[2] = ConfigError[1]

====
